---- MODULE Spec2Model ----
(***************************************************************************)
(* Model of src/gpio/dynamic.rs: a GPIO pin whose electrical mode is       *)
(* tracked at run time (DynamicPin), the mode classifier and register      *)
(* field encoder (Dynamic), the make_* mode transitions and the guarded    *)
(* accessors set_high / set_low / is_high / is_low.                        *)
(*                                                                         *)
(* Two execution contexts ("main" and "irq") each own one DynamicPin of    *)
(* the same port.  The port's registers MODER, OTYPER, PUPDR and ODR are   *)
(* 32-bit words, modelled as bit vectors.  The fixed-mode conversions      *)
(* Pin::into_*, Pin::_set_state and Pin::_is_low that dynamic.rs calls     *)
(* live outside this file; they are modelled from the specification.       *)
(***************************************************************************)
EXTENDS Integers, FiniteSets, Sequences, TLC

\* Pins per port: "N is pin number: from 0 to 15".
NumPins == 16

\* Width of a port register word: MODER and PUPDR hold two bits for each pin.
WordBits == 2 * NumPins

\* Number of the last background pattern the other pins' fields start from.
MaxBackground == 0

\* The two execution contexts, each owning one DynamicPin<P, N>.
Handles == {"main", "irq"}

\* The const generic N of each handle: two neighbouring pins of one port.
PinOfMain == 5

PinOfIrq == 6

\* Mutant: every handle addresses the same pin.
PinOfShared(h) == PinOfMain

\* The pin a handle's erased Pin::<P, N, Unknown>::new() addresses.
PinOf(h) == IF h = "main" THEN PinOfMain ELSE PinOfIrq

\* enum Dynamic
Dynamic ==
    {"InputFloating", "InputPullUp", "InputPullDown", "OutputPushPull", "OutputOpenDrain"}

\* enum PinModeError
PinModeError == {"IncorrectMode"}

\* enum PinState
PinState == {"High", "Low"}

--------------------------------------------------------------------------
(* impl Dynamic *)

\* Mutant: an open-drain output is not counted as readable.
is_input_strict(m) == m \in {"InputFloating", "InputPullUp", "InputPullDown"}

\* Mutant: every mode is counted as readable.
is_input_all(m) == TRUE

is_input(m) ==
    CASE m \in {"InputFloating", "InputPullUp", "InputPullDown", "OutputOpenDrain"} -> TRUE
      [] m = "OutputPushPull" -> FALSE

\* Mutant: only the three input modes are counted as interruptable.
is_interruptable_inputs_only(m) == m \in {"InputFloating", "InputPullUp", "InputPullDown"}

is_interruptable(m) ==
    CASE m \in {"InputFloating", "InputPullUp", "InputPullDown", "OutputOpenDrain"} -> TRUE
      [] m = "OutputPushPull" -> FALSE

\* Mutant: an open-drain output is not counted as writable.
is_output_push_pull_only(m) == m = "OutputPushPull"

is_output(m) ==
    CASE m \in {"InputFloating", "InputPullUp", "InputPullDown"} -> FALSE
      [] m \in {"OutputPushPull", "OutputOpenDrain"} -> TRUE

\* Mutant: the pull-down input is encoded as an output.
moder_pull_down_as_output(m) == IF m \in {"InputFloating", "InputPullUp"} THEN 0 ELSE 1

moder(m) ==
    CASE m = "InputFloating" -> 0
      [] m = "InputPullUp" -> 0
      [] m = "InputPullDown" -> 0
      [] m = "OutputPushPull" -> 1
      [] m = "OutputOpenDrain" -> 1

\* Mutant: the input modes get the output type Some(0) instead of None.
otyper_zero_for_inputs(m) == IF m = "OutputOpenDrain" THEN <<1>> ELSE <<0>>

\* Mutant: the two output types are exchanged.
otyper_swapped(m) ==
    IF m = "OutputPushPull" THEN <<1>> ELSE IF m = "OutputOpenDrain" THEN <<0>> ELSE <<>>

\* Option<u32>: <<>> is None, <<v>> is Some(v).
otyper(m) ==
    CASE m = "OutputPushPull" -> <<0>>
      [] m = "OutputOpenDrain" -> <<1>>
      [] OTHER -> <<>>

\* Pull-configuration field of the three input modes (00 none, 01 up, 10 down).
pupdr(m) ==
    CASE m = "InputFloating" -> 0
      [] m = "InputPullUp" -> 1
      [] m = "InputPullDown" -> 2

--------------------------------------------------------------------------
(* Register words and the read-modify-write arithmetic on them *)

Bits == 0 .. (WordBits - 1)

Word == [Bits -> {0, 1}]

\* v << off, for a field value v.
Shl(v, off) ==
    [i \in Bits |-> IF i >= off /\ i - off < 8 THEN (v \div (2 ^ (i - off))) % 2 ELSE 0]

And(a, b) == [i \in Bits |-> a[i] * b[i]]

Or(a, b) == [i \in Bits |-> IF a[i] + b[i] > 0 THEN 1 ELSE 0]

Not(a) == [i \in Bits |-> 1 - a[i]]

\* (bits & !(mask << off)) | (v << off)
Modify(bits, mask, off, v) == Or(And(bits, Not(Shl(mask, off))), Shl(v, off))

\* The two-bit field of pin n in MODER or PUPDR, the one-bit field in OTYPER, ODR.
Field2(w, n) == w[2 * n] + 2 * w[2 * n + 1]

Field1(w, n) == w[n]

\* Contents the registers may hold for the pins no handle owns.
Background(k) == [i \in Bits |-> IF (i + k) % 3 = 0 THEN 1 ELSE 0]

--------------------------------------------------------------------------
(* State *)

VARIABLES
    mode,       \* mode[h]: DynamicPin::mode, the tracked Dynamic of handle h
    pc,         \* pc[h]: position of context h inside the call it is running
    call,       \* call[h]: the make_* call context h is running
    tmp,        \* tmp[h]: the register word read by the running read-modify-write
    borrowed,   \* borrowed[r]: the context holding the &mut token of register r
    MODER,      \* mode-select register of the port
    OTYPER,     \* output-type register of the port
    PUPDR,      \* pull-configuration register of the port
    ODR,        \* output-data register of the port
    last        \* what the step just taken returned, and to whom (none: nothing)

vars == <<mode, pc, call, tmp, borrowed, MODER, OTYPER, PUPDR, ODR, last>>

Tokens == {"MODER", "OTYPER", "PUPDR"}

NoCall ==
    [op |-> "none", into |-> "none", state |-> "NA", target |-> "none", odr0 |-> -1]

NoWord == [i \in Bits |-> 0]

\* A return: who called what (with which state argument), the tracked mode (src)
\* and the pin's output data bit (odr0) when it was called, the result, and for
\* is_low / is_high the boolean returned and the input data bit that was read.
NoReturn ==
    [h |-> "none", op |-> "none", state |-> "NA", src |-> "none", odr0 |-> -1,
     res |-> "none", val |-> FALSE, bit |-> -1]

\* The registers configured for pin n as mode m, on top of the word w.
InitField2(w, n, v) == [w EXCEPT ![2 * n] = v % 2, ![2 * n + 1] = v \div 2]

InitModer(w, h, m) == InitField2(w, PinOf(h), moder(m))

InitOtyper(w, h, m) == IF otyper(m) = <<>> THEN w ELSE [w EXCEPT ![PinOf(h)] = otyper(m)[1]]

InitPupdr(w, h, m) == IF otyper(m) = <<>> THEN InitField2(w, PinOf(h), pupdr(m)) ELSE w

\* DynamicPin::new(mode) for both handles, the mode matching the hardware.
Init ==
    \E m1 \in Dynamic, m2 \in Dynamic, k \in 0 .. MaxBackground :
        /\ mode = [h \in Handles |-> IF h = "main" THEN m1 ELSE m2]
        /\ pc = [h \in Handles |-> "idle"]
        /\ call = [h \in Handles |-> NoCall]
        /\ tmp = [h \in Handles |-> NoWord]
        /\ borrowed = [r \in Tokens |-> "none"]
        /\ MODER = InitModer(InitModer(Background(k), "main", m1), "irq", m2)
        /\ OTYPER = InitOtyper(InitOtyper(Background(k), "main", m1), "irq", m2)
        /\ PUPDR = InitPupdr(InitPupdr(Background(k), "main", m1), "irq", m2)
        /\ ODR = Background(k)
        /\ last = NoReturn

--------------------------------------------------------------------------
(* Mode transitions: DynamicPin::make_* *)

\* The mode a fixed-mode conversion Pin::into_* configures.
IntoMode(into) ==
    CASE into = "into_pull_up_input" -> "InputPullUp"
      [] into = "into_pull_down_input" -> "InputPullDown"
      [] into = "into_floating_input" -> "InputFloating"
      [] into \in {"into_push_pull_output", "into_push_pull_output_in_state"} ->
            "OutputPushPull"
      [] into \in {"into_open_drain_output", "into_open_drain_output_in_state"} ->
            "OutputOpenDrain"

\* Where a conversion starts: the *_in_state ones first apply the level to ODR.
IntoEntry(into) ==
    IF into \in {"into_push_pull_output_in_state", "into_open_drain_output_in_state"}
    THEN "odr" ELSE "moder_r"

\* Mutant: the register tokens are not exclusive.
CanBorrowAlways(h, regs) == TRUE

\* The &mut register tokens a call takes can be lent only while nobody holds them.

CanBorrow(h, regs) == \A r \in regs : borrowed[r] = "none"

\* Entry of a make_* call: the tokens are borrowed for the call, the erased pin
\* is converted with `into`, and `target` is what self.mode is then set to.
Call(h, op, into, state, target, regs) ==
    /\ pc[h] = "idle"
    /\ CanBorrow(h, regs)
    /\ borrowed' = [r \in Tokens |-> IF r \in regs THEN h ELSE borrowed[r]]
    /\ call' = [call EXCEPT ![h] =
                  [op |-> op, into |-> into, state |-> state, target |-> target,
                   odr0 |-> Field1(ODR, PinOf(h))]]
    /\ pc' = [pc EXCEPT ![h] = IntoEntry(into)]
    /\ last' = NoReturn
    /\ UNCHANGED <<mode, tmp, MODER, OTYPER, PUPDR, ODR>>

make_pull_up_input(h) ==
    Call(h, "make_pull_up_input", "into_pull_up_input", "NA", "InputPullUp",
         {"MODER", "PUPDR"})

\* Mutant: the tracked mode of the neighbouring operation is stored.
make_pull_down_input_stores_pull_up(h) ==
    Call(h, "make_pull_down_input", "into_pull_down_input", "NA", "InputPullUp",
         {"MODER", "PUPDR"})

make_pull_down_input(h) ==
    Call(h, "make_pull_down_input", "into_pull_down_input", "NA", "InputPullDown",
         {"MODER", "PUPDR"})

\* Mutant: the operation is refused when the pin already is a floating input.
make_floating_input_if_changed(h) ==
    /\ mode[h] # "InputFloating"
    /\ Call(h, "make_floating_input", "into_floating_input", "NA", "InputFloating",
            {"MODER", "PUPDR"})

\* Mutant: the conversion of the pull-up operation is run.
make_floating_input_converts_pull_up(h) ==
    Call(h, "make_floating_input", "into_pull_up_input", "NA", "InputFloating",
         {"MODER", "PUPDR"})

make_floating_input(h) ==
    Call(h, "make_floating_input", "into_floating_input", "NA", "InputFloating",
         {"MODER", "PUPDR"})

\* Mutant: the plain operation converts with an initial state of Low.
make_push_pull_output_low(h) ==
    Call(h, "make_push_pull_output", "into_push_pull_output_in_state", "Low",
         "OutputPushPull", {"MODER", "OTYPER"})

make_push_pull_output(h) ==
    Call(h, "make_push_pull_output", "into_push_pull_output", "NA", "OutputPushPull",
         {"MODER", "OTYPER"})

\* Mutant: the state argument is dropped, the plain conversion is run.
make_push_pull_output_in_state_dropped(h, state) ==
    Call(h, "make_push_pull_output_in_state", "into_push_pull_output", state,
         "OutputPushPull", {"MODER", "OTYPER"})

make_push_pull_output_in_state(h, state) ==
    Call(h, "make_push_pull_output_in_state", "into_push_pull_output_in_state", state,
         "OutputPushPull", {"MODER", "OTYPER"})

\* Mutant: the conversion of the pull-up input operation is run.
make_open_drain_output_converts_pull_up(h) ==
    Call(h, "make_open_drain_output", "into_pull_up_input", "NA", "OutputOpenDrain",
         {"MODER", "PUPDR"})

make_open_drain_output(h) ==
    Call(h, "make_open_drain_output", "into_open_drain_output", "NA", "OutputOpenDrain",
         {"MODER", "OTYPER"})

\* Mutant: the tracked mode of the push-pull variant is stored.
make_open_drain_output_in_state_stores_push_pull(h, state) ==
    Call(h, "make_open_drain_output_in_state", "into_open_drain_output_in_state", state,
         "OutputPushPull", {"MODER", "OTYPER"})

make_open_drain_output_in_state(h, state) ==
    Call(h, "make_open_drain_output_in_state", "into_open_drain_output_in_state", state,
         "OutputOpenDrain", {"MODER", "OTYPER"})

--------------------------------------------------------------------------
(* The conversion a make_* call runs on the erased pin: Pin::into_* *)

\* Pin::_set_state: one write of the pin's set or reset bit of BSRR.
SetState(w, n, state) == [w EXCEPT ![n] = IF state = "High" THEN 1 ELSE 0]

\* into_*_in_state: the requested level goes to the output data register first.
IntoSetState(h) ==
    /\ pc[h] = "odr"
    /\ ODR' = SetState(ODR, PinOf(h), call[h].state)
    /\ pc' = [pc EXCEPT ![h] = "moder_r"]
    /\ last' = NoReturn
    /\ UNCHANGED <<mode, call, tmp, borrowed, MODER, OTYPER, PUPDR>>

\* Read of the mode-select word.
IntoModerRead(h) ==
    /\ pc[h] = "moder_r"
    /\ tmp' = [tmp EXCEPT ![h] = MODER]
    /\ pc' = [pc EXCEPT ![h] = "moder_w"]
    /\ last' = NoReturn
    /\ UNCHANGED <<mode, call, borrowed, MODER, OTYPER, PUPDR, ODR>>

\* Write back of the mode-select word with this pin's field replaced.
IntoModerWrite(h) ==
    /\ pc[h] = "moder_w"
    /\ MODER' = Modify(tmp[h], 3, 2 * PinOf(h), moder(IntoMode(call[h].into)))
    /\ pc' = [pc EXCEPT ![h] = "cfg_r"]
    /\ last' = NoReturn
    /\ UNCHANGED <<mode, call, tmp, borrowed, OTYPER, PUPDR, ODR>>

\* Read of the second word: OTYPER for an output mode, PUPDR for an input mode.
IntoCfgRead(h) ==
    /\ pc[h] = "cfg_r"
    /\ tmp' = [tmp EXCEPT ![h] =
                 IF otyper(IntoMode(call[h].into)) = <<>> THEN PUPDR ELSE OTYPER]
    /\ pc' = [pc EXCEPT ![h] = "cfg_w"]
    /\ last' = NoReturn
    /\ UNCHANGED <<mode, call, borrowed, MODER, OTYPER, PUPDR, ODR>>

\* Write back of the second word with this pin's field replaced.
IntoCfgWrite(h) ==
    /\ pc[h] = "cfg_w"
    /\ LET m == IntoMode(call[h].into) IN
         IF otyper(m) = <<>>
         THEN /\ PUPDR' = Modify(tmp[h], 3, 2 * PinOf(h), pupdr(m))
              /\ UNCHANGED OTYPER
         ELSE /\ OTYPER' = Modify(tmp[h], 1, PinOf(h), otyper(m)[1])
              /\ UNCHANGED PUPDR
    /\ pc' = [pc EXCEPT ![h] = "store"]
    /\ last' = NoReturn
    /\ UNCHANGED <<mode, call, tmp, borrowed, MODER, ODR>>

\* self.mode = target; the call returns () and the borrowed tokens with it.
StoreMode(h) ==
    /\ pc[h] = "store"
    /\ mode' = [mode EXCEPT ![h] = call[h].target]
    /\ borrowed' = [r \in Tokens |-> IF borrowed[r] = h THEN "none" ELSE borrowed[r]]
    /\ last' = [h |-> h, op |-> call[h].op, state |-> call[h].state, src |-> mode[h],
                odr0 |-> call[h].odr0, res |-> "Unit", val |-> FALSE, bit |-> -1]
    /\ pc' = [pc EXCEPT ![h] = "idle"]
    /\ call' = [call EXCEPT ![h] = NoCall]
    /\ tmp' = [tmp EXCEPT ![h] = NoWord]
    /\ UNCHANGED <<MODER, OTYPER, PUPDR, ODR>>

--------------------------------------------------------------------------
(* Guarded accessors *)

Ok(h, op, val, bit) ==
    [h |-> h, op |-> op, state |-> "NA", src |-> mode[h], odr0 |-> Field1(ODR, PinOf(h)),
     res |-> "Ok", val |-> val, bit |-> bit]

Err(h, op, e) ==
    [h |-> h, op |-> op, state |-> "NA", src |-> mode[h], odr0 |-> Field1(ODR, PinOf(h)),
     res |-> e, val |-> FALSE, bit |-> -1]

\* Mutant: the guard reads the mode-select field instead of the tracked mode.
set_high_checks_hardware(h) ==
    /\ pc[h] = "idle"
    /\ IF Field2(MODER, PinOf(h)) = 1
       THEN /\ ODR' = SetState(ODR, PinOf(h), "High")
            /\ last' = Ok(h, "set_high", FALSE, -1)
       ELSE /\ UNCHANGED ODR
            /\ last' = Err(h, "set_high", "IncorrectMode")
    /\ UNCHANGED <<mode, pc, call, tmp, borrowed, MODER, OTYPER, PUPDR>>

set_high(h) ==
    /\ pc[h] = "idle"
    /\ IF is_output(mode[h])
       THEN /\ ODR' = SetState(ODR, PinOf(h), "High")
            /\ last' = Ok(h, "set_high", FALSE, -1)
       ELSE /\ UNCHANGED ODR
            /\ last' = Err(h, "set_high", "IncorrectMode")
    /\ UNCHANGED <<mode, pc, call, tmp, borrowed, MODER, OTYPER, PUPDR>>

set_low(h) ==
    /\ pc[h] = "idle"
    /\ IF is_output(mode[h])
       THEN /\ ODR' = SetState(ODR, PinOf(h), "Low")
            /\ last' = Ok(h, "set_low", FALSE, -1)
       ELSE /\ UNCHANGED ODR
            /\ last' = Err(h, "set_low", "IncorrectMode")
    /\ UNCHANGED <<mode, pc, call, tmp, borrowed, MODER, OTYPER, PUPDR>>

\* Result<bool, PinModeError> of is_low when the input data bit of the pin reads idr.
is_low_result(h, idr) ==
    IF is_input(mode[h])
    THEN Ok(h, "is_low", idr = 0, idr)
    ELSE Err(h, "is_low", "IncorrectMode")

\* Mutant: the boolean of is_low is passed on as it is.
is_high_result_same(h, idr) == [is_low_result(h, idr) EXCEPT !.op = "is_high"]

\* self.is_low().map(|b| !b)
is_high_result(h, idr) ==
    LET r == is_low_result(h, idr) IN
        IF r.res = "Ok" THEN [r EXCEPT !.op = "is_high", !.val = ~r.val]
        ELSE [r EXCEPT !.op = "is_high"]

\* The level sensed on the pin is the environment's: any bit may be read.
is_low(h) ==
    /\ pc[h] = "idle"
    /\ \E idr \in {0, 1} : last' = is_low_result(h, idr)
    /\ UNCHANGED <<mode, pc, call, tmp, borrowed, MODER, OTYPER, PUPDR, ODR>>

is_high(h) ==
    /\ pc[h] = "idle"
    /\ \E idr \in {0, 1} : last' = is_high_result(h, idr)
    /\ UNCHANGED <<mode, pc, call, tmp, borrowed, MODER, OTYPER, PUPDR, ODR>>

--------------------------------------------------------------------------
(* Specification *)

\* Every step context h can take.
Step(h) ==
    \/ make_pull_up_input(h)
    \/ make_pull_down_input(h)
    \/ make_floating_input(h)
    \/ make_push_pull_output(h)
    \/ \E state \in PinState : make_push_pull_output_in_state(h, state)
    \/ make_open_drain_output(h)
    \/ \E state \in PinState : make_open_drain_output_in_state(h, state)
    \/ IntoSetState(h)
    \/ IntoModerRead(h)
    \/ IntoModerWrite(h)
    \/ IntoCfgRead(h)
    \/ IntoCfgWrite(h)
    \/ StoreMode(h)
    \/ set_high(h)
    \/ set_low(h)
    \/ is_low(h)
    \/ is_high(h)

Next == \E h \in Handles : Step(h)

Spec == Init /\ [][Next]_vars

\* DynamicPin::new(mode) takes the caller's word for the mode: handles whose
\* tracked modes m1, m2 are any, on pins the hardware has configured as c1, c2.
InitAny ==
    \E m1 \in Dynamic, m2 \in Dynamic, c1 \in Dynamic, c2 \in Dynamic,
       k \in 0 .. MaxBackground, d1 \in {0, 1}, d2 \in {0, 1} :
        /\ mode = [h \in Handles |-> IF h = "main" THEN m1 ELSE m2]
        /\ pc = [h \in Handles |-> "idle"]
        /\ call = [h \in Handles |-> NoCall]
        /\ tmp = [h \in Handles |-> NoWord]
        /\ borrowed = [r \in Tokens |-> "none"]
        /\ MODER = InitModer(InitModer(Background(k), "main", c1), "irq", c2)
        /\ OTYPER = InitOtyper(InitOtyper(Background(k), "main", c1), "irq", c2)
        /\ PUPDR = InitPupdr(InitPupdr(Background(k), "main", c1), "irq", c2)
        /\ ODR = [Background(k) EXCEPT ![PinOf("main")] = d1, ![PinOf("irq")] = d2]
        /\ last = NoReturn

\* The guarded accessors alone.
NextAccess == \E h \in Handles : set_high(h) \/ set_low(h) \/ is_low(h) \/ is_high(h)

\* The guarded accessors on handles created with any mode on any hardware.
SpecAnyHardware == InitAny /\ [][NextAccess]_vars

--------------------------------------------------------------------------
(* Vocabulary of the properties, independent of the operators above *)

\* The pin each handle was created for.
HandlePin(h) == IF h = "main" THEN PinOfMain ELSE PinOfIrq

Other(h) == IF h = "main" THEN "irq" ELSE "main"

InputModes == {"InputFloating", "InputPullUp", "InputPullDown"}

OutputModes == {"OutputPushPull", "OutputOpenDrain"}

ReadableModes == InputModes \cup {"OutputOpenDrain"}

PlainOutputOps == {"make_push_pull_output", "make_open_drain_output"}

InStateOps == {"make_push_pull_output_in_state", "make_open_drain_output_in_state"}

InputOps == {"make_floating_input", "make_pull_up_input", "make_pull_down_input"}

MakeOps == InputOps \cup PlainOutputOps \cup InStateOps

DriveOps == {"set_high", "set_low"}

SenseOps == {"is_low", "is_high"}

\* The mode make_X is documented to switch the pin into.
ModeOfOp(op) ==
    CASE op = "make_floating_input" -> "InputFloating"
      [] op = "make_pull_up_input" -> "InputPullUp"
      [] op = "make_pull_down_input" -> "InputPullDown"
      [] op \in {"make_push_pull_output", "make_push_pull_output_in_state"} ->
            "OutputPushPull"
      [] op \in {"make_open_drain_output", "make_open_drain_output_in_state"} ->
            "OutputOpenDrain"

ModeBits(h) == <<MODER[2 * HandlePin(h) + 1], MODER[2 * HandlePin(h)]>>

TypeBit(h) == OTYPER[HandlePin(h)]

PullBits(h) == <<PUPDR[2 * HandlePin(h) + 1], PUPDR[2 * HandlePin(h)]>>

DataBit(h) == ODR[HandlePin(h)]

\* The configuration the hardware fields of h's pin encode: the pull field
\* counts while the pin is an input, the output-type field while it is an output.
Encoded(h) ==
    CASE ModeBits(h) = <<0, 0>> /\ PullBits(h) = <<0, 0>> -> "InputFloating"
      [] ModeBits(h) = <<0, 0>> /\ PullBits(h) = <<0, 1>> -> "InputPullUp"
      [] ModeBits(h) = <<0, 0>> /\ PullBits(h) = <<1, 0>> -> "InputPullDown"
      [] ModeBits(h) = <<0, 1>> /\ TypeBit(h) = 0 -> "OutputPushPull"
      [] ModeBits(h) = <<0, 1>> /\ TypeBit(h) = 1 -> "OutputOpenDrain"
      [] OTHER -> "none"

\* The hardware fields of h's pin are those of mode m.
FieldsOf(h, m) == Encoded(h) = m

--------------------------------------------------------------------------
(* C1 *)

\* C1 as stated: in every state, also in the middle of a transition, the tracked
\* mode of each handle equals the configuration its pin's fields encode.
C1_TrackedEqualsHardwareEverywhere == \A h \in Handles : mode[h] = Encoded(h)

\* C1, amended: whenever a handle is not inside a make_* call, its tracked mode
\* equals the configuration encoded in its pin's mode-select, output-type and
\* pull-configuration fields.
C1_TrackedEqualsHardwareAtRest ==
    \A h \in Handles : pc[h] = "idle" => mode[h] = Encoded(h)

\* A transition from push-pull output to pull-down input has returned.
C1_Witness ==
    /\ last.h = "main" /\ last.op = "make_pull_down_input" /\ last.res = "Unit"
    /\ last.src = "OutputPushPull"
    /\ mode["main"] = "InputPullDown" /\ Encoded("main") = "InputPullDown"

--------------------------------------------------------------------------
(* C2 *)

\* The bits of the three configuration words outside the fields of pin n.
OutsidePin(w2a, w1, w2b, n) ==
    <<[i \in Bits \ {2 * n, 2 * n + 1} |-> w2a[i]],
      [i \in Bits \ {n} |-> w1[i]],
      [i \in Bits \ {2 * n, 2 * n + 1} |-> w2b[i]]>>

\* C2: every step of a make_* transition of handle h leaves the bits of MODER,
\* OTYPER and PUPDR that belong to the other 15 pins as they were.
C2_OtherPinsFieldsKept ==
    [][\A h \in Handles :
          pc'[h] # pc[h] =>
              OutsidePin(MODER', OTYPER', PUPDR', HandlePin(h)) =
                  OutsidePin(MODER, OTYPER, PUPDR, HandlePin(h))]_vars

\* A transition of the irq context's pin has changed its own fields in all of
\* MODER and OTYPER while every other pin of the port still holds its first bits.
C2_Witness ==
    /\ last.h = "irq" /\ last.op = "make_open_drain_output" /\ last.res = "Unit"
    /\ last.src = "InputPullUp"
    /\ ModeBits("irq") = <<0, 1>> /\ TypeBit("irq") = 1
    /\ OutsidePin(MODER, OTYPER, PUPDR, HandlePin("irq")) =
           OutsidePin(Background(0), Background(0),
                      [Background(0) EXCEPT ![2 * HandlePin("main")] = 1,
                                            ![2 * HandlePin("main") + 1] = 0],
                      HandlePin("irq"))

--------------------------------------------------------------------------
(* C3 *)

\* C3: when a make_* transition of one context returns while the other context
\* is at rest, the fields of both pins are the ones their own transitions asked
\* for: the returning pin's encode the mode of the operation that returned, the
\* other pin's still encode that handle's mode; no write-back of one context
\* has undone a field of the other.
C3_NoLostUpdate ==
    \A h \in Handles :
        (last.h = h /\ last.op \in MakeOps /\ pc[Other(h)] = "idle") =>
            /\ FieldsOf(h, ModeOfOp(last.op))
            /\ FieldsOf(Other(h), mode[Other(h)])

\* make_push_pull_output of the irq pin has returned after make_pull_up_input of
\* the main pin, and the port holds both configurations.
C3_Witness ==
    /\ last.h = "irq" /\ last.op = "make_push_pull_output"
    /\ last.src = "InputFloating"
    /\ pc["main"] = "idle" /\ mode["main"] = "InputPullUp"
    /\ ModeBits("irq") = <<0, 1>> /\ TypeBit("irq") = 0
    /\ ModeBits("main") = <<0, 0>> /\ PullBits("main") = <<0, 1>>
    /\ TypeBit("main") = 1

--------------------------------------------------------------------------
(* C4 *)

\* C4: a set_high or set_low call returns Ok exactly when the tracked mode is
\* OutputPushPull or OutputOpenDrain, and then the pin's output data bit is 1
\* after set_high and 0 after set_low; in the three input modes it returns
\* IncorrectMode and MODER, OTYPER, PUPDR and ODR are as before the call.
C4_DriveGuarded ==
    [][last'.op \in DriveOps =>
          /\ (last'.res = "Ok") = (mode[last'.h] \in OutputModes)
          /\ last'.res = "Ok" =>
                 /\ ODR'[HandlePin(last'.h)] = (IF last'.op = "set_high" THEN 1 ELSE 0)
                 /\ \A i \in Bits \ {HandlePin(last'.h)} : ODR'[i] = ODR[i]
          /\ last'.res # "Ok" =>
                 /\ last'.res = "IncorrectMode"
                 /\ mode[last'.h] \in InputModes
                 /\ ODR' = ODR
          /\ UNCHANGED <<MODER, OTYPER, PUPDR, mode>>]_vars

\* set_high has been refused on a pull-up input whose output data bit is 0.
C4_Witness ==
    /\ last.h = "main" /\ last.op = "set_high" /\ last.res = "IncorrectMode"
    /\ mode["main"] = "InputPullUp" /\ DataBit("main") = 0

--------------------------------------------------------------------------
(* C5 *)

\* C5: an is_low call returns Ok exactly when the tracked mode is one of the
\* three input modes or OutputOpenDrain, the boolean it returns is true exactly
\* when the input data bit it read is 0, and in OutputPushPull it returns
\* IncorrectMode without reading.
C5_IsLowGuarded ==
    last.op = "is_low" =>
        /\ (last.res = "Ok") = (mode[last.h] \in ReadableModes)
        /\ last.res = "Ok" => (last.bit \in {0, 1} /\ last.val = (last.bit = 0))
        /\ last.res # "Ok" =>
               (last.res = "IncorrectMode" /\ mode[last.h] = "OutputPushPull"
                /\ last.bit = -1)

\* is_low has returned Ok(true) on an open-drain output.
C5_Witness ==
    /\ last.h = "irq" /\ last.op = "is_low" /\ last.res = "Ok" /\ last.val
    /\ last.bit = 0 /\ mode["irq"] = "OutputOpenDrain"

--------------------------------------------------------------------------
(* C6 *)

\* What two sense calls made one right after the other by one handle owe each
\* other: the same IncorrectMode when the mode is OutputPushPull, negated
\* booleans otherwise (whenever `same` holds of the two input data bits read).
SensePair(a, b, same) ==
    (a.op \in SenseOps /\ b.op \in SenseOps /\ a.op # b.op /\ a.h = b.h) =>
        IF a.src \in ReadableModes
        THEN /\ a.res = "Ok" /\ b.res = "Ok"
             /\ same => b.val = ~a.val
        ELSE a.res = "IncorrectMode" /\ b.res = "IncorrectMode"

\* C6 as stated: is_low and is_high called one right after the other always
\* return negated booleans in a readable mode, and the same error otherwise.
C6_AlwaysNegated == [][SensePair(last, last', TRUE)]_vars

\* C6, amended: is_high returns the negation of what is_low returns for the input
\* data bit it reads, so the two calls, made one right after the other, return
\* negated booleans when both read the same input data bit; both return
\* IncorrectMode in OutputPushPull; is_high reads the input data bit once, through
\* the is_low it calls, and not at all when it fails.
C6_NegatedOnSameInput ==
    [][/\ SensePair(last, last', last.bit = last'.bit)
       /\ last'.op = "is_high" =>
              IF last'.res = "Ok"
              THEN last'.bit \in {0, 1} /\ last'.val = (last'.bit = 1)
              ELSE last'.bit = -1]_vars

\* is_high has returned Ok(true) on a floating input that reads 1.
C6_Witness ==
    /\ last.h = "main" /\ last.op = "is_high" /\ last.res = "Ok" /\ last.val
    /\ last.bit = 1 /\ mode["main"] = "InputFloating"

--------------------------------------------------------------------------
(* C7 *)

\* C7: a make_X call returns with the tracked mode X, whatever the mode before,
\* the *_in_state variants like the plain ones; and the accessor the handle calls
\* next returns Ok exactly when X is writable (set_high, set_low) or readable
\* (is_low, is_high).
C7_ModeAfterMake ==
    [][/\ last'.op \in MakeOps => mode'[last'.h] = ModeOfOp(last'.op)
       /\ (last.op \in MakeOps /\ last'.h = last.h /\ last'.op \in DriveOps) =>
              (last'.res = "Ok") = (ModeOfOp(last.op) \in OutputModes)
       /\ (last.op \in MakeOps /\ last'.h = last.h /\ last'.op \in SenseOps) =>
              (last'.res = "Ok") = (ModeOfOp(last.op) \in ReadableModes)]_vars

\* make_open_drain_output_in_state has returned on a pin that was a pull-down input.
C7_Witness ==
    /\ last.h = "irq" /\ last.op = "make_open_drain_output_in_state"
    /\ last.src = "InputPullDown" /\ mode["irq"] = "OutputOpenDrain"

--------------------------------------------------------------------------
(* C8 *)

\* C8: whatever its tracked mode, a handle at rest can start each make_*
\* operation as soon as the register tokens are free to borrow; a transition
\* under way can always take its next step; it returns () with the tracked
\* mode of its target; and the only error ever returned is IncorrectMode, by a
\* guarded accessor.
C8_TransitionsTotal ==
    /\ \A h \in Handles :
           (pc[h] = "idle" /\ \A r \in Tokens : borrowed[r] = "none") =>
               /\ ENABLED make_floating_input(h)
               /\ ENABLED make_pull_up_input(h)
               /\ ENABLED make_pull_down_input(h)
               /\ ENABLED make_push_pull_output(h)
               /\ ENABLED make_open_drain_output(h)
               /\ \A state \in PinState :
                      /\ ENABLED make_push_pull_output_in_state(h, state)
                      /\ ENABLED make_open_drain_output_in_state(h, state)
    /\ \A h \in Handles : pc[h] # "idle" => ENABLED Step(h)
    /\ last.op \in MakeOps => (last.res = "Unit" /\ mode[last.h] = ModeOfOp(last.op))
    /\ last.res \notin {"none", "Unit", "Ok"} =>
           (last.res = "IncorrectMode" /\ last.op \in DriveOps \cup SenseOps)

\* A self-transition has returned: make_pull_up_input on a pull-up input.
C8_Witness ==
    /\ last.h = "main" /\ last.op = "make_pull_up_input" /\ last.res = "Unit"
    /\ last.src = "InputPullUp" /\ mode["main"] = "InputPullUp"

--------------------------------------------------------------------------
(* C9 *)

Level(state) == IF state = "High" THEN 1 ELSE 0

\* C9: once a make_*_output_in_state transition has written the mode-select
\* field of its pin, and still when it returns, the field is 01 and the pin's
\* output data bit is the requested level.
C9_LevelBeforeOutput ==
    /\ \A h \in Handles :
           (call[h].op \in InStateOps /\ pc[h] \in {"cfg_r", "cfg_w", "store"}) =>
               (ModeBits(h) = <<0, 1>> /\ DataBit(h) = Level(call[h].state))
    /\ last.op \in InStateOps =>
           (ModeBits(last.h) = <<0, 1>> /\ DataBit(last.h) = Level(last.state))

\* make_push_pull_output_in_state(High) has written the mode-select field of a
\* pin that was an input with output data bit 0.
C9_Witness ==
    /\ call["main"].op = "make_push_pull_output_in_state"
    /\ call["main"].state = "High" /\ call["main"].odr0 = 0
    /\ mode["main"] = "InputFloating" /\ pc["main"] = "cfg_r"
    /\ ModeBits("main") = <<0, 1>> /\ DataBit("main") = 1

--------------------------------------------------------------------------
(* C10 *)

\* C10: during make_push_pull_output and make_open_drain_output, and when they
\* return, the pin's output data bit is the one it was when they were called.
C10_DataBitKept ==
    /\ \A h \in Handles : call[h].op \in PlainOutputOps => DataBit(h) = call[h].odr0
    /\ last.op \in PlainOutputOps => DataBit(last.h) = last.odr0

\* make_open_drain_output has returned on a pin whose output data bit a set_high
\* had left at 1 before it became an input.
C10_Witness ==
    /\ last.h = "irq" /\ last.op = "make_open_drain_output" /\ last.res = "Unit"
    /\ last.src = "InputPullUp" /\ last.odr0 = 1 /\ DataBit("irq") = 1

--------------------------------------------------------------------------
(* C11 *)

\* C11: from the call of make_floating_input, make_pull_up_input or
\* make_pull_down_input to its return, no step changes the output-type bit of
\* the pin, so it holds after the transition what it held before (it is not
\* zeroed); and otyper is None for the three input modes.
C11_InputKeepsOutputType ==
    [][/\ \A h \in Handles :
              (call[h].op \in InputOps \/ call'[h].op \in InputOps) =>
                  OTYPER'[HandlePin(h)] = OTYPER[HandlePin(h)]
       /\ \A h \in Handles : mode[h] \in InputModes => otyper(mode[h]) = <<>>]_vars

\* make_pull_up_input has returned on a pin that was an open-drain output, and
\* the output-type bit of the pin is still 1.
C11_Witness ==
    /\ last.h = "main" /\ last.op = "make_pull_up_input" /\ last.res = "Unit"
    /\ last.src = "OutputOpenDrain" /\ mode["main"] = "InputPullUp"
    /\ ModeBits("main") = <<0, 0>> /\ TypeBit("main") = 1

--------------------------------------------------------------------------
(* C12 *)

\* C12: while the tracked mode of a handle is an input mode and the handle is at
\* rest or inside an input transition, the mode-select field of its pin is 00,
\* in every intermediate state too; and when an input transition returns, the
\* pull-configuration field is the one of that transition (00 floating, 01
\* pull-up, 10 pull-down) and the tracked mode is its target.
C12_InputSequence ==
    /\ \A h \in Handles :
           (mode[h] \in InputModes /\ call[h].op \in InputOps \cup {"none"}) =>
               ModeBits(h) = <<0, 0>>
    /\ last.op \in InputOps =>
           /\ ModeBits(last.h) = <<0, 0>>
           /\ mode[last.h] = ModeOfOp(last.op)
           /\ PullBits(last.h) =
                  (CASE last.op = "make_floating_input" -> <<0, 0>>
                     [] last.op = "make_pull_up_input" -> <<0, 1>>
                     [] last.op = "make_pull_down_input" -> <<1, 0>>)

\* make_pull_down_input has returned on a pin that was a pull-up input: the
\* pull-configuration field went from 01 to 10.
C12_Witness ==
    /\ last.h = "main" /\ last.op = "make_pull_down_input" /\ last.res = "Unit"
    /\ last.src = "InputPullUp" /\ mode["main"] = "InputPullDown"
    /\ ModeBits("main") = <<0, 0>> /\ PullBits("main") = <<1, 0>>

--------------------------------------------------------------------------
(* C13 *)

\* C13: on the tracked mode of every handle, whichever of the five variants it
\* is, is_input is true for the three input modes and OutputOpenDrain and false
\* for OutputPushPull, is_output is true exactly for the two output modes, and
\* is_interruptable equals is_input.
C13_ClassifierTable ==
    \A h \in Handles :
        /\ is_input(mode[h]) =
               (mode[h] \in {"InputFloating", "InputPullUp", "InputPullDown",
                             "OutputOpenDrain"})
        /\ (mode[h] = "OutputPushPull") = ~is_input(mode[h])
        /\ is_output(mode[h]) = (mode[h] \in {"OutputPushPull", "OutputOpenDrain"})
        /\ is_interruptable(mode[h]) = (mode[h] # "OutputPushPull")
        /\ is_interruptable(mode[h]) = is_input(mode[h])

\* The classifier has been applied to every kind of mode: one handle has been
\* refused is_low as a push-pull output while the other is an open-drain output.
C13_Witness ==
    /\ last.h = "main" /\ last.op = "is_low" /\ last.res = "IncorrectMode"
    /\ mode["main"] = "OutputPushPull" /\ mode["irq"] = "OutputOpenDrain"

--------------------------------------------------------------------------
(* C14 *)

\* C14: on the tracked mode of every handle, whichever of the five variants it
\* is, moder is 00 for the three input modes and 01 for the two output modes
\* (never 10 or 11), and otyper is Some(0) for OutputPushPull, Some(1) for
\* OutputOpenDrain and None for the three input modes.
C14_EncoderTable ==
    \A h \in Handles :
        /\ moder(mode[h]) \in {0, 1}
        /\ (moder(mode[h]) = 0) =
               (mode[h] \in {"InputFloating", "InputPullUp", "InputPullDown"})
        /\ (moder(mode[h]) = 1) = (mode[h] \in {"OutputPushPull", "OutputOpenDrain"})
        /\ (otyper(mode[h]) = <<0>>) = (mode[h] = "OutputPushPull")
        /\ (otyper(mode[h]) = <<1>>) = (mode[h] = "OutputOpenDrain")
        /\ (otyper(mode[h]) = <<>>) =
               (mode[h] \in {"InputFloating", "InputPullUp", "InputPullDown"})

\* The encodings have been written: make_open_drain_output has returned on a
\* floating input, leaving mode-select 01 and output type 1, while the other pin
\* is a push-pull output with output type 0.
C14_Witness ==
    /\ last.h = "irq" /\ last.op = "make_open_drain_output" /\ last.res = "Unit"
    /\ last.src = "InputFloating"
    /\ ModeBits("irq") = <<0, 1>> /\ TypeBit("irq") = 1
    /\ mode["main"] = "OutputPushPull"
    /\ ModeBits("main") = <<0, 1>> /\ TypeBit("main") = 0

--------------------------------------------------------------------------
(* C15 *)

\* A drive call and a sense call made one right after the other by one handle.
DriveSensePair(a, b) ==
    /\ a.h = b.h
    /\ \/ a.op \in DriveOps /\ b.op \in SenseOps
       \/ a.op \in SenseOps /\ b.op \in DriveOps

\* C15: when a handle calls a drive operation (set_high, set_low) and a sense
\* operation (is_low, is_high) one right after the other, in either order and
\* with no transition in between, both return Ok exactly when the tracked mode
\* is OutputOpenDrain; in each of the other four modes exactly one of them does.
C15_DualCapability ==
    [][DriveSensePair(last, last') =>
          /\ last.src = last'.src
          /\ (last.res = "Ok" /\ last'.res = "Ok") = (last'.src = "OutputOpenDrain")
          /\ last'.src # "OutputOpenDrain" => (last.res = "Ok") # (last'.res = "Ok")]_vars

\* is_low has returned Ok on an open-drain output whose output data bit, 1 at
\* first, a drive operation has cleared.
C15_Witness ==
    /\ last.h = "irq" /\ last.op = "is_low" /\ last.res = "Ok"
    /\ mode["irq"] = "OutputOpenDrain" /\ DataBit("irq") = 0

--------------------------------------------------------------------------
(* C16 *)

\* C16: the tracked mode of a handle changes only in the step in which one of
\* its make_* calls returns; set_high, set_low, is_high and is_low, whether they
\* return Ok or IncorrectMode, leave every tracked mode and MODER, OTYPER and
\* PUPDR as they were; and no bit of ODR other than the calling pin's changes,
\* nor that one unless the call is a set_high or set_low returning Ok, whatever
\* the other context is in the middle of.
C16_AccessorsFrame ==
    [][/\ \A h \in Handles :
              mode'[h] # mode[h] => (last'.h = h /\ last'.op \in MakeOps)
       /\ last'.op \in DriveOps \cup SenseOps =>
              /\ UNCHANGED <<mode, MODER, OTYPER, PUPDR>>
              /\ \A i \in Bits \ {HandlePin(last'.h)} : ODR'[i] = ODR[i]
              /\ (last'.op \in SenseOps \/ last'.res # "Ok") => ODR' = ODR]_vars

\* set_high of the irq pin has returned Ok, raising its output data bit from 0,
\* while the main context is between the read and the write of MODER.
C16_Witness ==
    /\ last.h = "irq" /\ last.op = "set_high" /\ last.res = "Ok" /\ last.odr0 = 0
    /\ DataBit("irq") = 1 /\ pc["main"] = "moder_w"

--------------------------------------------------------------------------
(* C17 *)

\* C17: on handles created with any tracked mode over any hardware
\* configuration and any output data, whether a guarded accessor returns Ok or
\* IncorrectMode is fixed by the operation and the tracked mode of the handle:
\* set_high and set_low return Ok exactly in the two output modes, is_low and
\* is_high exactly in the three input modes and OutputOpenDrain, whatever the
\* registers hold.
C17_GateIsTrackedMode ==
    /\ last.op \in DriveOps =>
           /\ last.res \in {"Ok", "IncorrectMode"}
           /\ (last.res = "Ok") = (mode[last.h] \in OutputModes)
    /\ last.op \in SenseOps =>
           /\ last.res \in {"Ok", "IncorrectMode"}
           /\ (last.res = "Ok") = (mode[last.h] \in ReadableModes)

\* set_high has been refused on a handle tracked as a floating input although
\* the hardware has the pin configured as a push-pull output.
C17_Witness ==
    /\ last.h = "main" /\ last.op = "set_high" /\ last.res = "IncorrectMode"
    /\ mode["main"] = "InputFloating" /\ Encoded("main") = "OutputPushPull"

--------------------------------------------------------------------------
(* C18 *)

\* The call c is one of the five plain make_X operations, on a handle whose
\* tracked mode m already is X.
SelfTransition(c, m) == c.op \in InputOps \cup PlainOutputOps /\ ModeOfOp(c.op) = m

\* C18: no step of a make_X call on a handle whose tracked mode already is X,
\* from the call to the return, changes the tracked mode or any bit of MODER,
\* OTYPER, PUPDR or ODR: the fields are written again with the values they
\* hold, so the call leaves the state it found, and so does a second one.
C18_SelfTransitionNoEffect ==
    [][\A h \in Handles :
          ((SelfTransition(call[h], mode[h]) \/ SelfTransition(call'[h], mode[h]))
           /\ pc'[h] # pc[h]) =>
              UNCHANGED <<mode, MODER, OTYPER, PUPDR, ODR>>]_vars

\* make_floating_input has returned on a pin that already was a floating input.
C18_Witness ==
    /\ last.h = "main" /\ last.op = "make_floating_input" /\ last.res = "Unit"
    /\ last.src = "InputFloating" /\ mode["main"] = "InputFloating"
    /\ Encoded("main") = "InputFloating"

--------------------------------------------------------------------------
(* C19 *)

\* C19: from the call of an output transition (make_push_pull_output,
\* make_open_drain_output, with or without state) to its return, no step
\* changes the pull-configuration field of the pin, so after the transition it
\* still holds what the last input transition wrote.
C19_OutputKeepsPull ==
    [][\A h \in Handles :
          (call[h].op \in PlainOutputOps \cup InStateOps
           \/ call'[h].op \in PlainOutputOps \cup InStateOps) =>
              /\ PUPDR'[2 * HandlePin(h)] = PUPDR[2 * HandlePin(h)]
              /\ PUPDR'[2 * HandlePin(h) + 1] = PUPDR[2 * HandlePin(h) + 1]]_vars

\* make_open_drain_output has returned on a pin that was a pull-up input, and
\* the pull-configuration field still reads 01, which is not what an open-drain
\* output created on a floating pin holds.
C19_Witness ==
    /\ last.h = "main" /\ last.op = "make_open_drain_output" /\ last.res = "Unit"
    /\ last.src = "InputPullUp" /\ mode["main"] = "OutputOpenDrain"
    /\ PullBits("main") = <<0, 1>>

--------------------------------------------------------------------------
(* C20 *)

\* C20: for each of the five variants, moder gives 01 exactly when is_output
\* holds and exactly when otyper is not None, and is_input or is_output holds;
\* and when a handle calls a drive operation and a sense operation one right
\* after the other, in either order, at least one of the two returns Ok: in no
\* reachable state is a handle refused by all four accessors.
C20_ClassifierAgreesWithEncoder ==
    [][/\ \A m \in Dynamic :
              /\ (moder(m) = 1) = is_output(m)
              /\ is_output(m) = (otyper(m) # <<>>)
              /\ is_input(m) \/ is_output(m)
       /\ DriveSensePair(last, last') => (last.res = "Ok" \/ last'.res = "Ok")]_vars

\* set_low has returned Ok on a push-pull output, the one output mode in which
\* the sense operations are refused.
C20_Witness ==
    /\ last.h = "irq" /\ last.op = "set_low" /\ last.res = "Ok"
    /\ mode["irq"] = "OutputPushPull" /\ mode["irq"] \notin ReadableModes
    /\ ModeBits("irq") = <<0, 1>>

====
